---- MODULE Spec2Model ----
(***************************************************************************)
(* Layout engine of the genkouyoushi generator: the box geometry model of  *)
(* src/geometry.js and generatePage of src/svg.js.                         *)
(*                                                                         *)
(* Lengths are exact integers counted in a fixed length unit (a quarter of *)
(* a millimetre in the worked scenario).  Stroke widths take even values,  *)
(* so that strokeWidth / 2 is exact.  The code computes with IEEE doubles; *)
(* the model computes the same expressions in exact arithmetic.            *)
(***************************************************************************)
EXTENDS Integers, Sequences, FiniteSets, TLC

VARIABLES
    page, box, boxStyle, titleColumn,   \* the GridState passed to generatePage
    flags,                              \* its addCross, addDiagonal, addThirds, addBox
    boxBefore,                          \* the cell box as the latest call received it
    result,                             \* what the latest call returned
    geometry,                           \* a SpacingRectangle and a Box under construction
    heap                                \* the instances of a Box and of its clone

vars == <<page, box, boxStyle, titleColumn, flags, boxBefore, result, geometry, heap>>

\* ------------------------------------------------------------------ bounds
MaxMargin == 1
MaxPageWidth == 18
MaxPageHeight == 8

StrokeWidths == {0, 2}
BoxStyles == {"none", "ruled", "grid"}
TitleColumns == {"start", "middle", "end", "none"}

\* ----------------------------------------------------------- geometry.js
\* new SpacingRectangle(...args): args holds the arguments that are not
\* undefined, so `second === undefined` is Len(args) < 2, and so on.
\* Mutation: three arguments bound in the order top, bottom, left = right.
SpacingRectangle_BottomSecond(args) ==
    LET first == IF Len(args) = 0 THEN 0 ELSE args[1] IN
    IF Len(args) < 2 THEN [top |-> first, right |-> first, bottom |-> first, left |-> first]
    ELSE IF Len(args) < 3 THEN [top |-> first, right |-> args[2], bottom |-> first, left |-> args[2]]
    ELSE IF Len(args) < 4 THEN [top |-> first, right |-> args[3], bottom |-> args[2], left |-> args[3]]
    ELSE [top |-> first, right |-> args[2], bottom |-> args[3], left |-> args[4]]

SpacingRectangle(args) ==
    LET first == IF Len(args) = 0 THEN 0 ELSE args[1] IN
    IF Len(args) < 2 THEN [top |-> first, right |-> first, bottom |-> first, left |-> first]
    ELSE IF Len(args) < 3 THEN [top |-> first, right |-> args[2], bottom |-> first, left |-> args[2]]
    ELSE IF Len(args) < 4 THEN [top |-> first, right |-> args[2], bottom |-> args[3], left |-> args[2]]
    ELSE [top |-> first, right |-> args[2], bottom |-> args[3], left |-> args[4]]

Max(a, b) == IF a >= b THEN a ELSE b

totalHorizontal(r) == r.left + r.right

mergedHorizontal(r) == Max(r.left, r.right)

totalVertical(r) == r.top + r.bottom

\* Mutation: the merged spacing is the sum of the two sides.
mergedVertical_Sum(r) == r.top + r.bottom

mergedVertical(r) == Max(r.top, r.bottom)

\* The value of a field that was never assigned.
Undefined == "undefined"

Box(innerWidth, innerHeight, margin, padding, strokeWidth) ==
    [innerWidth |-> innerWidth, innerHeight |-> innerHeight,
     margin |-> margin, padding |-> padding, strokeWidth |-> strokeWidth]

outerWidth(b) == b.innerWidth + totalHorizontal(b.padding) + 2 * b.strokeWidth

\* Mutation: the stroke is subtracted once.
SetOuterWidth_OneStroke(b, width) ==
    [b EXCEPT !.innerWidth = width - totalHorizontal(b.padding) - b.strokeWidth]

SetOuterWidth(b, width) ==
    [b EXCEPT !.innerWidth = width - totalHorizontal(b.padding) - 2 * b.strokeWidth]

outerHeight(b) == b.innerHeight + totalVertical(b.padding) + 2 * b.strokeWidth

SetOuterHeight(b, height) ==
    [b EXCEPT !.innerHeight = height - totalVertical(b.padding) - 2 * b.strokeWidth]

innerOrigin(b) == <<b.strokeWidth + b.padding.left, b.strokeWidth + b.padding.top>>

\* Mutation: the end is measured from the far edge, stroke and padding
\* taken off the inner size.
innerEnd_FromFarEdge(b) ==
    <<b.innerWidth - b.strokeWidth - b.padding.right, b.innerHeight - b.strokeWidth - b.padding.bottom>>

innerEnd(b) == <<innerOrigin(b)[1] + b.innerWidth, innerOrigin(b)[2] + b.innerHeight>>

svgWidth(b) == b.innerWidth + totalHorizontal(b.padding) + b.strokeWidth

svgHeight(b) == b.innerHeight + totalVertical(b.padding) + b.strokeWidth

\* Mutation: the clone is built from three arguments, the left side dropped.
SpacingRectangleClone_ThreeArgs(r) == SpacingRectangle(<<r.top, r.right, r.bottom>>)

\* SpacingRectangle.clone(): a new instance built by the constructor.
SpacingRectangleClone(r) == SpacingRectangle(<<r.top, r.right, r.bottom, r.left>>)

\* Box.clone(), on values: the instances it creates are told apart in the
\* heap of the clone workbench below.
BoxClone(b) ==
    Box(b.innerWidth, b.innerHeight, SpacingRectangleClone(b.margin),
        SpacingRectangleClone(b.padding), b.strokeWidth)

\* ------------------------------------------------------------ svg.js values
\* JavaScript values where a parameter receives more than one type.
Num(n) == [t |-> "number", v |-> n]

Str(str) == [t |-> "string", v |-> str]

Bool(b) == [t |-> "boolean", v |-> b]

JsUndefined == [t |-> "undefined"]

\* ToBoolean: what `if (v)` and `!v` test.
Truthy(j) ==
    CASE j.t = "number" -> j.v # 0
      [] j.t = "string" -> j.v # ""
      [] j.t = "boolean" -> j.v
      [] OTHER -> FALSE

\* `j > 1`: a boolean converts to 0 or 1, a colour string and undefined to NaN.
GreaterThanOne(j) == j.t = "number" /\ j.v > 1

\* String(j), the text setAttribute stores; numbers are not passed as colours.
JsToString(j) ==
    CASE j.t = "string" -> j.v
      [] j.t = "boolean" -> IF j.v THEN "true" ELSE "false"
      [] OTHER -> "undefined"

\* len / nDashes, with len the square root of lenSquared, kept as the pair
\* of lenSquared and nDashes.
DashLength(x0, y0, x1, y1, n) == <<(x1 - x0) * (x1 - x0) + (y1 - y0) * (y1 - y0), n>>

\* makeLine: the <line> element; nDashes and strokeColor as JavaScript
\* values.  dashed says whether stroke-dasharray and stroke-dashoffset are
\* set, and then nDashes is the number the length is divided by.
makeLine(x0, y0, x1, y1, nDashes, strokeColor) ==
    [tag |-> "line", x1 |-> x0, y1 |-> y0, x2 |-> x1, y2 |-> y1,
     dashed |-> GreaterThanOne(nDashes),
     nDashes |-> IF GreaterThanOne(nDashes) THEN nDashes.v ELSE 0,
     dasharray |-> IF GreaterThanOne(nDashes) THEN DashLength(x0, y0, x1, y1, nDashes.v) ELSE <<>>,
     dashoffset |-> IF GreaterThanOne(nDashes) THEN DashLength(x0, y0, x1, y1, nDashes.v) ELSE <<>>,
     stroke |-> IF strokeColor.t # "undefined" THEN JsToString(strokeColor) ELSE "inherit"]

EmptyGroup == [tag |-> "g", children |-> <<>>]

AllSides == <<TRUE, TRUE, TRUE, TRUE>>

\* Mutation: only a negative size skips the rendering.
NothingToDraw_Negative(b) == svgHeight(b) < 0 \/ svgWidth(b) < 0

\* The test that makes render return an empty group.
NothingToDraw(b) == svgHeight(b) <= 0 \/ svgWidth(b) <= 0

\* SVGBox.render(x, y) of a box with the given colours and sides
\* [top, right, bottom, left].
SVGBoxRender(b, x, y, strokeColor, fillColor, sides) ==
    IF NothingToDraw(b) THEN EmptyGroup
    ELSE IF \A k \in 1..4 : sides[k]
    THEN [tag |-> "rect",
          x |-> x + b.strokeWidth \div 2, y |-> y + b.strokeWidth \div 2,
          width |-> svgWidth(b), height |-> svgHeight(b),
          fill |-> fillColor, stroke |-> strokeColor, strokeWidth |-> b.strokeWidth]
    ELSE [tag |-> "g",
          children |->
              (IF sides[4]
               THEN <<makeLine(x + b.strokeWidth \div 2, y,
                               x + b.strokeWidth \div 2, y + outerHeight(b), Num(0), JsUndefined)>>
               ELSE <<>>)
           \o (IF sides[2]
               THEN <<makeLine(x + outerWidth(b) - b.strokeWidth \div 2, y,
                               x + outerWidth(b) - b.strokeWidth \div 2, y + outerHeight(b),
                               Num(0), JsUndefined)>>
               ELSE <<>>)
           \o (IF sides[1]
               THEN <<makeLine(x, y + b.strokeWidth \div 2,
                               x + outerWidth(b), y + b.strokeWidth \div 2, Num(0), JsUndefined)>>
               ELSE <<>>)
           \o (IF sides[3]
               THEN <<makeLine(x, y + outerHeight(b) - b.strokeWidth \div 2,
                               x + outerWidth(b), y + outerHeight(b) - b.strokeWidth \div 2,
                               Num(0), JsUndefined)>>
               ELSE <<>>)
           \o (IF fillColor # "none"
               THEN <<[tag |-> "rect", x |-> x + innerOrigin(b)[1], y |-> y + innerOrigin(b)[2],
                       width |-> b.innerWidth, height |-> b.innerHeight,
                       fill |-> fillColor, stroke |-> "none", strokeWidth |-> 0]>>
               ELSE <<>>),
          stroke |-> strokeColor, strokeWidth |-> b.strokeWidth]

\* makeBox(box, x, y, strokeColor, fillColor): all four sides.
makeBox(b, x, y, strokeColor, fillColor) ==
    SVGBoxRender(b, x, y, strokeColor, fillColor, AllSides)

mainStrokeColor == "#000000"

\* brightenColor(mainStrokeColor, 0.7)
innerColor == "#b3b3b3"

nDashesStraight == 19

nDashesDiag == 25

\* The box with every length multiplied by n.  The hanziBox symbol is
\* computed in twelfths of the length unit, so that the halves, thirds and
\* quarters of render are exact.
ScaledSpacing(r, n) ==
    [top |-> n * r.top, right |-> n * r.right, bottom |-> n * r.bottom, left |-> n * r.left]

ScaledBox(b, n) ==
    Box(n * b.innerWidth, n * b.innerHeight, ScaledSpacing(b.margin, n),
        ScaledSpacing(b.padding, n), n * b.strokeWidth)

\* The k-th argument after `box` as the callee receives it: undefined when
\* the call passes fewer arguments.
Param(args, k) == IF k <= Len(args) THEN args[k] ELSE JsUndefined

\* new SVGHanziBox(...): the properties the constructor stores.
SVGHanziBox(b, isEnclosedArg, nStraight, nDiag, strokeArg, innerArg, addCross, addDiagonal, addThirds, addBox) ==
    [box |-> b,
     strokeColor |-> strokeArg,
     fillColor |-> "none",
     sides |-> IF ~Truthy(isEnclosedArg) THEN <<FALSE, TRUE, FALSE, TRUE>> ELSE AllSides,
     isEnclosedAttr |-> isEnclosedArg,
     nDashesStraight |-> nStraight,
     nDashesDiag |-> nDiag,
     mainStrokeColor |-> strokeArg,
     innerColor |-> innerArg,
     addCross |-> addCross,
     addDiagonal |-> addDiagonal,
     addThirds |-> addThirds,
     addBox |-> addBox]

\* SVGHanziBox.render(x, y, isLast): the children of the group, in the
\* order appended, and the group's stroke.
SVGHanziBoxRender(h, x, y, isLast) ==
    LET b == h.box
        x0 == x + innerOrigin(b)[1]
        y0 == y + innerOrigin(b)[2]
        x1 == x + innerEnd(b)[1]
        y1 == y + innerEnd(b)[2]
        w == b.innerWidth
        ht == b.innerHeight
    IN  [tag |-> "g",
         stroke |-> JsToString(h.mainStrokeColor),
         cross |->
            IF Truthy(h.addCross)
            THEN <<makeLine(x0, y0 + ht \div 2, x1, y0 + ht \div 2, h.nDashesStraight, h.innerColor),
                   makeLine(x0 + w \div 2, y0, x0 + w \div 2, y1, h.nDashesStraight, h.innerColor)>>
            ELSE <<>>,
         thirds |->
            IF Truthy(h.addThirds)
            THEN <<makeLine(x0, y0 + ht \div 3, x1, y0 + ht \div 3, h.nDashesStraight, h.innerColor),
                   makeLine(x0, y0 + (2 * ht) \div 3, x1, y0 + (2 * ht) \div 3,
                            h.nDashesStraight, h.innerColor),
                   makeLine(x0 + w \div 3, y0, x0 + w \div 3, y1, h.nDashesStraight, h.innerColor),
                   makeLine(x0 + (2 * w) \div 3, y0, x0 + (2 * w) \div 3, y1,
                            h.nDashesStraight, h.innerColor)>>
            ELSE <<>>,
         diagonal |->
            IF Truthy(h.addDiagonal)
            THEN <<makeLine(x0, y0, x1, y1, h.nDashesDiag, h.innerColor),
                   makeLine(x0, y1, x1, y0, h.nDashesDiag, h.innerColor)>>
            ELSE <<>>,
         innerBox |->
            IF Truthy(h.addBox)
            THEN <<[tag |-> "rect", x |-> x0 + w \div 4, y |-> y0 + w \div 4,
                    width |-> (w \div 4) * 2, height |-> (w \div 4) * 2,
                    fill |-> "none", stroke |-> JsToString(h.innerColor)]>>
            ELSE <<>>,
         bottom |->
            IF ~Truthy(h.isEnclosedAttr) /\ ~isLast
            THEN <<makeLine(x0, y + outerHeight(b) - b.strokeWidth \div 2,
                            x1, y + outerHeight(b) - b.strokeWidth \div 2,
                            h.nDashesStraight, h.innerColor)>>
            ELSE <<>>,
         sides |-> h.sides,
         border |-> SVGBoxRender(b, x, y, JsToString(h.strokeColor), h.fillColor, h.sides)]

\* makeHanziBox(box, ...args): the parameters isEnclosed, nDashesStraight,
\* nDashesDiag, mainStrokeColor, innerColor, addCross, addDiagonal,
\* addThirds, addBox, addBottomLine are bound to the arguments by
\* position; the constructor ignores its fifteenth argument.
makeHanziBox(b, args) ==
    SVGHanziBoxRender(
        SVGHanziBox(b, Param(args, 1), Param(args, 2), Param(args, 3), Param(args, 4),
                    Param(args, 5), Param(args, 6), Param(args, 7), Param(args, 8),
                    Param(args, 9)),
        0, 0, FALSE)

\* The later revision of the class (a fifteenth constructor parameter,
\* addBottom): the properties the constructor stores.
SVGHanziBoxAddBottom(b, isEnclosedArg, nStraight, nDiag, strokeArg, innerArg, addCross, addDiagonal, addThirds, addBox, addBottom) ==
    [addBottom |-> addBottom]
    @@ SVGHanziBox(b, isEnclosedArg, nStraight, nDiag, strokeArg, innerArg,
                   addCross, addDiagonal, addThirds, addBox)

\* Its render(x, y, isLast): the bottom separator is drawn when the box is
\* not enclosed, addBottom is set and the cell is not the last.
SVGHanziBoxAddBottomRender(h, x, y, isLast) ==
    [SVGHanziBoxRender(h, x, y, isLast) EXCEPT !.bottom = IF Truthy(h.addBottom) THEN @ ELSE <<>>]

\* set isEnclosed(value)
SetIsEnclosed(h, value) ==
    [h EXCEPT !.sides = IF Truthy(value) THEN AllSides ELSE <<FALSE, TRUE, FALSE, TRUE>>,
              !.isEnclosedAttr = value]

\* Its clone(): the constructor called with fourteen arguments.
SVGHanziBoxClone(h) ==
    SVGHanziBoxAddBottom(BoxClone(h.box), h.isEnclosedAttr, h.nDashesStraight, h.nDashesDiag,
                         h.mainStrokeColor, h.innerColor, h.addCross, h.addDiagonal,
                         h.addThirds, h.addBox, JsUndefined)

\* The arguments after `box` in generatePage's call of makeHanziBox.
HanziBoxArguments(fl) ==
    <<Num(nDashesStraight), Num(nDashesDiag), Str(mainStrokeColor), Str(innerColor),
      Bool(fl.addCross), Bool(fl.addDiagonal), Bool(fl.addThirds), Bool(fl.addBox)>>

NoElement == [tag |-> "none"]

\* The element generatePage appends to <defs> in style grid; it is given
\* no id attribute.
HanziBoxElement(bx, style, fl) ==
    IF style = "grid"
    THEN makeHanziBox(ScaledBox(bx, 12), HanziBoxArguments(fl))
    ELSE NoElement

\* ------------------------------------------------------ svg.js generatePage
\* Mutation: "ruled" writes zero into all four margins.
StyledBox_AllMargins(bx, style) ==
    IF style = "ruled"
    THEN [bx EXCEPT !.margin = SpacingRectangle(<<0>>)]
    ELSE bx

\* Mutation: only the top margin is written.
StyledBox_TopOnly(bx, style) ==
    IF style = "ruled"
    THEN [bx EXCEPT !.margin.top = 0]
    ELSE bx

\* Style step: "ruled" writes zero into the cell box's vertical margins.
StyledBox(bx, style) ==
    IF style = "ruled"
    THEN [bx EXCEPT !.margin.top = 0, !.margin.bottom = 0]
    ELSE bx

isEnclosed(bx) == mergedVertical(bx.margin) > 0

\* Rows
boundaryRowHeight(bx) == outerHeight(bx) + totalVertical(bx.margin)

\* Mutation: the gap between two rows taken as the sum of both margins.
interiorRowHeight_SummedMargin(bx) == outerHeight(bx) - bx.strokeWidth + totalVertical(bx.margin)

interiorRowHeight(bx) == outerHeight(bx) - bx.strokeWidth + mergedVertical(bx.margin)

nBoundaryRows(pg, bx) ==
    IF pg.innerHeight >= boundaryRowHeight(bx) THEN 1 ELSE 0

\* Mutation: the rows after the first counted in boundary row heights.
nInteriorRows_BoundaryDivisor(pg, bx) ==
    IF pg.innerHeight >= boundaryRowHeight(bx)
    THEN Max(0, (pg.innerHeight - boundaryRowHeight(bx)) \div boundaryRowHeight(bx))
    ELSE 0

nInteriorRows(pg, bx) ==
    IF pg.innerHeight >= boundaryRowHeight(bx)
    THEN Max(0, (pg.innerHeight - boundaryRowHeight(bx)) \div interiorRowHeight(bx))
    ELSE 0

columnsOuterHeight(pg, bx) ==
    boundaryRowHeight(bx) * nBoundaryRows(pg, bx) + interiorRowHeight(bx) * nInteriorRows(pg, bx)

\* The <use href="#hanziBox"> elements of the hanziColumn group: the y of
\* each, in the order appended (grid style only).
HanziColumnCells(bx, style, nRows) ==
    IF style = "grid"
    THEN [i \in 1..nRows |-> bx.margin.top + (i - 1) * interiorRowHeight(bx)]
    ELSE <<>>

\* The dashed lines between boxes of the hanziColumn group.
HanziColumnSeparators(bx, style, nRows) ==
    IF style = "grid" /\ ~isEnclosed(bx) /\ nRows > 1
    THEN [i \in 1..(nRows - 1) |->
            makeLine(innerOrigin(bx)[1], bx.margin.top + i * interiorRowHeight(bx),
                     innerEnd(bx)[1], bx.margin.top + i * interiorRowHeight(bx),
                     Num(nDashesStraight), Str(innerColor))]
    ELSE <<>>

\* Columns
TitleBox(pg, bx) ==
    SetOuterHeight(
        SetOuterWidth(
            Box(Undefined, Undefined, SpacingRectangle(<<0>>), SpacingRectangle(<<0>>), bx.strokeWidth),
            outerWidth(bx)),
        columnsOuterHeight(pg, bx))

titleColumnWidth(pg, bx) == outerWidth(TitleBox(pg, bx))

boundaryColumnWidth(bx) == outerWidth(bx) + totalHorizontal(bx.margin)

\* Mutation: the shared stroke is not subtracted.
interiorColumnWidth_FullStroke(bx) == outerWidth(bx) + mergedHorizontal(bx.margin)

interiorColumnWidth(bx) == outerWidth(bx) - bx.strokeWidth + mergedHorizontal(bx.margin)

\* Mutation: the interior count is not rounded down to an even number.
MiddleCounts_NoRounding(pg, bx) ==
    LET requiredWidth == titleColumnWidth(pg, bx) + 2 * boundaryColumnWidth(bx)
        n == (pg.innerWidth - requiredWidth) \div interiorColumnWidth(bx)
    IN  IF pg.innerWidth >= requiredWidth
        THEN [nTitleColumns |-> 1, nBoundaryColumns |-> 2, nInteriorColumns |-> n]
        ELSE [nTitleColumns |-> 0, nBoundaryColumns |-> 0, nInteriorColumns |-> 0]

\* case "middle"
MiddleCounts(pg, bx) ==
    LET requiredWidth == titleColumnWidth(pg, bx) + 2 * boundaryColumnWidth(bx)
        n == (pg.innerWidth - requiredWidth) \div interiorColumnWidth(bx)
    IN  IF pg.innerWidth >= requiredWidth
        THEN [nTitleColumns |-> 1, nBoundaryColumns |-> 2, nInteriorColumns |-> n - (n % 2)]
        ELSE [nTitleColumns |-> 0, nBoundaryColumns |-> 0, nInteriorColumns |-> 0]

\* Mutation: the title width is not taken off the remaining width.
StartEndCounts_NoReservation(pg, bx) ==
    LET remaining == pg.innerWidth IN
    IF pg.innerWidth >= titleColumnWidth(pg, bx)
    THEN IF remaining >= boundaryColumnWidth(bx)
         THEN [nTitleColumns |-> 1, nBoundaryColumns |-> 1,
               nInteriorColumns |-> (remaining - boundaryColumnWidth(bx)) \div interiorColumnWidth(bx)]
         ELSE [nTitleColumns |-> 1, nBoundaryColumns |-> 0, nInteriorColumns |-> 0]
    ELSE [nTitleColumns |-> 0, nBoundaryColumns |-> 0, nInteriorColumns |-> 0]

\* case "start": case "end"
StartEndCounts(pg, bx) ==
    LET remaining == pg.innerWidth - titleColumnWidth(pg, bx) IN
    IF pg.innerWidth >= titleColumnWidth(pg, bx)
    THEN IF remaining >= boundaryColumnWidth(bx)
         THEN [nTitleColumns |-> 1, nBoundaryColumns |-> 1,
               nInteriorColumns |-> (remaining - boundaryColumnWidth(bx)) \div interiorColumnWidth(bx)]
         ELSE [nTitleColumns |-> 1, nBoundaryColumns |-> 0, nInteriorColumns |-> 0]
    ELSE [nTitleColumns |-> 0, nBoundaryColumns |-> 0, nInteriorColumns |-> 0]

\* case "none"
NoneCounts(pg, bx) ==
    IF pg.innerWidth >= boundaryColumnWidth(bx)
    THEN [nTitleColumns |-> 0, nBoundaryColumns |-> 1,
          nInteriorColumns |-> (pg.innerWidth - boundaryColumnWidth(bx)) \div interiorColumnWidth(bx)]
    ELSE [nTitleColumns |-> 0, nBoundaryColumns |-> 0, nInteriorColumns |-> 0]

\* switch (titleColumn)
ColumnCounts(pg, bx, tc) ==
    CASE tc = "middle" -> MiddleCounts(pg, bx)
      [] tc \in {"start", "end"} -> StartEndCounts(pg, bx)
      [] tc = "none" -> NoneCounts(pg, bx)

nColumnsOf(c) == c.nInteriorColumns + c.nBoundaryColumns + c.nTitleColumns

columnsOuterWidth(pg, bx, c) ==
    interiorColumnWidth(bx) * c.nInteriorColumns
    + boundaryColumnWidth(bx) * c.nBoundaryColumns
    + c.nTitleColumns * titleColumnWidth(pg, bx)

\* Mutation: the middle index rounded up, the end index one past the last.
TitleIdx_OffByOne(tc, c) ==
    IF c.nTitleColumns > 0
    THEN CASE tc = "middle" -> {(nColumnsOf(c) + 1) \div 2}
           [] tc = "start" -> {0}
           [] tc = "end" -> {nColumnsOf(c)}
           [] OTHER -> {}
    ELSE {}

\* titleIdx as the set of indices i with i === titleIdx: empty while
\* titleIdx is undefined.
TitleIdx(tc, c) ==
    IF c.nTitleColumns > 0
    THEN CASE tc = "middle" -> {nColumnsOf(c) \div 2}
           [] tc = "start" -> {0}
           [] tc = "end" -> {nColumnsOf(c) - 1}
           [] OTHER -> {}
    ELSE {}

\* Mutation: the loop never takes the title branch.
RECURSIVE PlaceColumns_NoTitle(_, _, _, _, _, _, _)
PlaceColumns_NoTitle(i, x, placed, pg, bx, nColumns, titleIdx) ==
    IF i >= nColumns THEN placed
    ELSE PlaceColumns_NoTitle(i + 1,
                      x + interiorColumnWidth(bx),
                      Append(placed, [kind |-> "column", idx |-> i, x |-> x, y |-> bx.strokeWidth \div 2,
                                      width |-> outerWidth(bx)]),
                      pg, bx, nColumns, titleIdx)

\* Place columns: the loop over i, carrying x; each placed element is
\* recorded with its kind, its index and the x, y it is placed at.
RECURSIVE PlaceColumns(_, _, _, _, _, _, _)
PlaceColumns(i, x, placed, pg, bx, nColumns, titleIdx) ==
    LET y == bx.strokeWidth \div 2
        title == TitleBox(pg, bx)
    IN
    IF i >= nColumns THEN placed
    ELSE IF i \in titleIdx
    THEN LET xt == IF i = 0 THEN x - bx.margin.left ELSE x IN
         PlaceColumns(i + 1,
                      xt + outerWidth(title) - title.strokeWidth + bx.margin.left,
                      Append(placed, [kind |-> "title", idx |-> i, x |-> xt, y |-> y,
                                      width |-> outerWidth(title)]),
                      pg, bx, nColumns, titleIdx)
    ELSE PlaceColumns(i + 1,
                      x + interiorColumnWidth(bx),
                      Append(placed, [kind |-> "column", idx |-> i, x |-> x, y |-> y,
                                      width |-> outerWidth(bx)]),
                      pg, bx, nColumns, titleIdx)

hanziBoard(pg, bx, nColumns, titleIdx) ==
    PlaceColumns(0, bx.strokeWidth \div 2 + bx.margin.left, <<>>, pg, bx, nColumns, titleIdx)

\* The box drawn over every non-title column: new Box(undefined, undefined)
\* with the outer size of a column.
ColumnOverlayBox(pg, bx) ==
    SetOuterHeight(
        SetOuterWidth(
            Box(Undefined, Undefined, SpacingRectangle(<<>>), SpacingRectangle(<<>>), 0),
            outerWidth(bx)),
        columnsOuterHeight(pg, bx))

\* The <rect> of a column in style ruled; title is the title box.
RuledColumn(title, bx, x, y) ==
    [tag |-> "rect", x |-> x, y |-> y,
     width |-> svgWidth(bx), height |-> svgHeight(title),
     fill |-> "none", stroke |-> mainStrokeColor, strokeWidth |-> bx.strokeWidth]

\* The elements the loop appends to hanziBoard for one placed column;
\* title is the title box and overlay the box drawn over the column.
ColumnElements(title, overlay, bx, style, col) ==
    IF col.kind = "title"
    THEN <<makeBox(title, col.x, col.y, "red", "pink")>>
    ELSE << IF style = "ruled"
            THEN RuledColumn(title, bx, col.x, col.y)
            ELSE [tag |-> "use", href |-> "#hanziColumn", x |-> col.x, y |-> col.y],
            makeBox(overlay, col.x, col.y, "none", "rgb(0 0 0 / 50%)") >>

paddingHorizontal(pg, bx, c) == 0

paddingVertical(pg, bx) == 0

\* Draw hanzi board: the translate(x, y) of the hanziBoard group.
BoardTranslate(pg, bx, c) ==
    <<innerOrigin(pg)[1] + paddingHorizontal(pg, bx, c),
      innerOrigin(pg)[2] + paddingVertical(pg, bx)>>

\* What one call of generatePage computes from the page, the cell box as
\* the style step left it, and the title mode.
Layout(pg, bx, style, tc, fl) ==
    LET c == ColumnCounts(pg, bx, tc)
        nRows == nInteriorRows(pg, bx) + nBoundaryRows(pg, bx)
        nColumns == nColumnsOf(c)
        titleIdx == TitleIdx(tc, c)
        columns == hanziBoard(pg, bx, nColumns, titleIdx)
        title == TitleBox(pg, bx)
        overlay == ColumnOverlayBox(pg, bx)
    IN  [nRows |-> nRows,
         nBoundaryRows |-> nBoundaryRows(pg, bx),
         nInteriorRows |-> nInteriorRows(pg, bx),
         columnsOuterHeight |-> columnsOuterHeight(pg, bx),
         hanziBox |-> HanziBoxElement(bx, style, fl),
         cells |-> HanziColumnCells(bx, style, nRows),
         separators |-> HanziColumnSeparators(bx, style, nRows),
         nColumns |-> nColumns,
         nTitleColumns |-> c.nTitleColumns,
         nBoundaryColumns |-> c.nBoundaryColumns,
         nInteriorColumns |-> c.nInteriorColumns,
         columnsOuterWidth |-> columnsOuterWidth(pg, bx, c),
         titleIdx |-> titleIdx,
         columns |-> columns,
         board |-> [k \in 1..nColumns |-> ColumnElements(title, overlay, bx, style, columns[k])],
         translate |-> BoardTranslate(pg, bx, c)]

\* ------------------------------------------------------------ state machine
NoResult == [called |-> FALSE]

\* No SpacingRectangle or Box is under construction; no Box was cloned.
NoGeometry == [op |-> "none"]

NoHeap == [op |-> "none"]

\* Cell shapes: inner width, inner height and padding of the cell box.
CellShapes ==
    { <<1, 1, SpacingRectangle(<<1, 0, 0, 0>>)>>,
      <<2, 1, SpacingRectangle(<<>>)>> }

SmallBoxes ==
    { Box(sh[1], sh[2], SpacingRectangle(<<t, r, b, l>>), sh[3], s) :
        sh \in CellShapes,
        t \in 0..MaxMargin, r \in 0..MaxMargin, b \in 0..MaxMargin, l \in 0..MaxMargin,
        s \in StrokeWidths }

PagePadding == SpacingRectangle(<<1, 2>>)

\* Rows and columns are counted independently of each other: the pages
\* take every width at the smallest and the largest height, and every
\* height at the smallest and the largest width.
PageSizes ==
    { <<w, h>> : w \in 0..MaxPageWidth, h \in {0, MaxPageHeight} }
    \cup { <<w, h>> : w \in {0, MaxPageWidth}, h \in 0..MaxPageHeight }

SmallPages ==
    { Box(sz[1], sz[2], SpacingRectangle(<<>>), PagePadding, 0) : sz \in PageSizes }

\* The worked scenario of the documentation, in quarter millimetres: cell
\* outer width 10mm, margins 2mm, stroke 0.5mm, page inner width 86mm.
ScenarioBox == Box(36, 36, SpacingRectangle(<<8>>), SpacingRectangle(<<>>), 2)

ScenarioPage == Box(344, 344, SpacingRectangle(<<>>), PagePadding, 0)

Flags(cross, diagonal, thirds, innerBox) ==
    [addCross |-> cross, addDiagonal |-> diagonal, addThirds |-> thirds, addBox |-> innerBox]

AllFlags == { Flags(c, d, t, b) : c \in BOOLEAN, d \in BOOLEAN, t \in BOOLEAN, b \in BOOLEAN }

Init ==
    /\ \/ page \in SmallPages /\ box \in SmallBoxes
       \/ page = ScenarioPage /\ box = ScenarioBox
    /\ boxStyle \in BoxStyles
    /\ titleColumn \in TitleColumns
    /\ flags = Flags(TRUE, FALSE, FALSE, FALSE)
    /\ boxBefore = box
    /\ result = NoResult
    /\ geometry = NoGeometry
    /\ heap = NoHeap

\* generatePage(state): the style step writes the cell box in place, the
\* rest is computed from the written box and returned.
GeneratePage ==
    LET bx == StyledBox(box, boxStyle) IN
    /\ box' = bx
    /\ boxBefore' = box
    /\ result' = [called |-> TRUE] @@ Layout(page, bx, boxStyle, titleColumn, flags)
    /\ UNCHANGED <<page, boxStyle, titleColumn, flags, geometry, heap>>

\* The caller sets state.boxStyle after a call and before the next; the
\* value the earlier call returned is dropped.
SetBoxStyle(style) ==
    /\ result.called
    /\ style # boxStyle
    /\ boxStyle' = style
    /\ result' = NoResult
    /\ boxBefore' = box
    /\ UNCHANGED <<page, box, titleColumn, flags, geometry, heap>>

Next ==
    \/ GeneratePage
    \/ \E style \in BoxStyles : SetBoxStyle(style)

Spec == Init /\ [][Next]_vars

\* The guide lines: every combination of the flags, on a few pages and
\* every small cell box, without title column.
GuidePages ==
    { Box(w, h, SpacingRectangle(<<>>), PagePadding, 0) : w \in {4}, h \in {0, MaxPageHeight} }

InitGuides ==
    /\ page \in GuidePages
    /\ box \in SmallBoxes
    /\ boxStyle \in BoxStyles
    /\ titleColumn = "none"
    /\ flags \in AllFlags
    /\ boxBefore = box
    /\ result = NoResult
    /\ geometry = NoGeometry
    /\ heap = NoHeap

SpecGuides == InitGuides /\ [][Next]_vars

\* ------------------------------------------------- geometry.js on its own
\* A SpacingRectangle is constructed from zero to four numbers, a Box is
\* constructed around it, with inner sizes given or left undefined, and the
\* outer sizes are assigned, each at most once, in either order.
MaxSide == 2
MaxInner == 1
MaxOuter == 8

ArgLists == UNION { [1..n -> 0..MaxSide] : n \in 0..4 }

\* An inner size as an argument of new Box: given, or left undefined.
InnerSizes == {<<>>} \cup { <<n>> : n \in 1..MaxInner }

ArgumentValue(arg) == IF arg = <<>> THEN Undefined ELSE arg[1]

OuterSizes == {0, MaxOuter}

GenerationIdle ==
    /\ page = ScenarioPage
    /\ box = ScenarioBox
    /\ boxStyle = "none"
    /\ titleColumn = "none"
    /\ flags = Flags(FALSE, FALSE, FALSE, FALSE)
    /\ boxBefore = box
    /\ result = NoResult

generationVars == <<page, box, boxStyle, titleColumn, flags, boxBefore, result>>

InitGeometry ==
    /\ GenerationIdle
    /\ geometry = NoGeometry
    /\ heap = NoHeap

\* new SpacingRectangle(...args)
NewSpacingRectangle(args) ==
    /\ geometry.op = "none"
    /\ geometry' = [op |-> "SpacingRectangle", args |-> args, rect |-> SpacingRectangle(args)]
    /\ UNCHANGED <<generationVars, heap>>

\* new Box(innerWidth, innerHeight, rect, rect, strokeWidth)
NewBox(innerWidth, innerHeight, strokeWidth) ==
    /\ geometry.op = "SpacingRectangle"
    /\ geometry' = [op |-> "Box", args |-> geometry.args, rect |-> geometry.rect,
                    box |-> Box(ArgumentValue(innerWidth), ArgumentValue(innerHeight),
                                geometry.rect, geometry.rect, strokeWidth),
                    before |-> Box(ArgumentValue(innerWidth), ArgumentValue(innerHeight),
                                   geometry.rect, geometry.rect, strokeWidth),
                    assigned |-> {}, value |-> 0,
                    givenWidth |-> innerWidth # <<>>, givenHeight |-> innerHeight # <<>>]
    /\ UNCHANGED <<generationVars, heap>>

\* box.outerWidth = width
AssignOuterWidth(width) ==
    /\ geometry.op \in {"Box", "outerHeight"}
    /\ "outerWidth" \notin geometry.assigned
    /\ geometry' = [geometry EXCEPT !.op = "outerWidth",
                                    !.before = geometry.box,
                                    !.box = SetOuterWidth(geometry.box, width),
                                    !.assigned = @ \cup {"outerWidth"},
                                    !.value = width]
    /\ UNCHANGED <<generationVars, heap>>

\* box.outerHeight = height
AssignOuterHeight(height) ==
    /\ geometry.op \in {"Box", "outerWidth"}
    /\ "outerHeight" \notin geometry.assigned
    /\ geometry' = [geometry EXCEPT !.op = "outerHeight",
                                    !.before = geometry.box,
                                    !.box = SetOuterHeight(geometry.box, height),
                                    !.assigned = @ \cup {"outerHeight"},
                                    !.value = height]
    /\ UNCHANGED <<generationVars, heap>>

NextGeometry ==
    \/ \E args \in ArgLists : NewSpacingRectangle(args)
    \/ \E w \in InnerSizes, h \in InnerSizes, s \in StrokeWidths : NewBox(w, h, s)
    \/ \E width \in OuterSizes : AssignOuterWidth(width)
    \/ \E height \in OuterSizes : AssignOuterHeight(height)

SpecGeometry == InitGeometry /\ [][NextGeometry]_vars

\* ------------------------------------------------------ clone and the heap
\* SpacingRectangle instances live in a store and a Box holds references to
\* its margin and its padding, so that two boxes sharing an instance are
\* told apart from two boxes holding equal instances.
MaxWrites == 2

Sides == {"top", "right", "bottom", "left"}

SpacingFields == {"margin", "padding"}

WrittenValues == {0, MaxSide}

Deref(store, b) == [b EXCEPT !.margin = store[b.margin], !.padding = store[b.padding]]

\* Mutation: the clone holds the margin and padding instances of the
\* original.
HeapBoxClone_Shallow(store, b) ==
    [store |-> store,
     box |-> Box(b.innerWidth, b.innerHeight, b.margin, b.padding, b.strokeWidth)]

\* Box.clone(): margin.clone() and padding.clone() each allocate a new
\* instance, which the new Box references.
HeapBoxClone(store, b) ==
    LET withMargin == Append(store, SpacingRectangleClone(store[b.margin]))
        withPadding == Append(withMargin, SpacingRectangleClone(store[b.padding]))
    IN  [store |-> withPadding,
         box |-> Box(b.innerWidth, b.innerHeight, Len(withMargin), Len(withPadding), b.strokeWidth)]

InitClone ==
    /\ GenerationIdle
    /\ geometry = NoGeometry
    /\ \E m \in 1..MaxSide, p \in 1..MaxSide, s \in StrokeWidths :
          heap = [op |-> "new",
                  store |-> <<SpacingRectangle(<<m>>), SpacingRectangle(<<0, p>>)>>,
                  boxes |-> [original |-> Box(MaxInner, MaxInner, 1, 2, s)],
                  atClone |-> Box(MaxInner, MaxInner, SpacingRectangle(<<m>>), SpacingRectangle(<<0, p>>), s),
                  written |-> {},
                  writes |-> 0]

\* const clone = original.clone()
CloneBox ==
    /\ heap.op = "new"
    /\ LET c == HeapBoxClone(heap.store, heap.boxes.original) IN
       heap' = [heap EXCEPT !.op = "clone",
                            !.store = c.store,
                            !.boxes = [original |-> heap.boxes.original, clone |-> c.box],
                            !.atClone = Deref(heap.store, heap.boxes.original)]
    /\ UNCHANGED <<generationVars, geometry>>

\* b[field][side] = value, b being the original or the clone
WriteSide(b, field, side, value) ==
    /\ heap.op \in {"clone", "write", "ruled"}
    /\ heap.writes < MaxWrites
    /\ heap' = [heap EXCEPT !.op = "write",
                            !.store[heap.boxes[b][field]][side] = value,
                            !.written = @ \cup {b},
                            !.writes = @ + 1]
    /\ UNCHANGED <<generationVars, geometry>>

\* The style step of generatePage on b: b.margin.top = b.margin.bottom = 0
StyleRuled(b) ==
    /\ heap.op \in {"clone", "write", "ruled"}
    /\ heap.writes < MaxWrites
    /\ heap' = [heap EXCEPT !.op = "ruled",
                            !.store[heap.boxes[b].margin].top = 0,
                            !.store[heap.boxes[b].margin].bottom = 0,
                            !.written = @ \cup {b},
                            !.writes = @ + 1]
    /\ UNCHANGED <<generationVars, geometry>>

NextClone ==
    \/ CloneBox
    \/ \E b \in {"original", "clone"}, field \in SpacingFields, side \in Sides, value \in WrittenValues :
          WriteSide(b, field, side, value)
    \/ \E b \in {"original", "clone"} : StyleRuled(b)

SpecClone == InitClone /\ [][NextClone]_vars

\* ------------------------------------------------------- svg.js on its own
\* The classes and functions of svg.js called directly: SVGBox.render on
\* boxes of every small outer size, the degenerate ones included.
MaxRenderOuter == 2

RenderSides == {AllSides, <<FALSE, TRUE, FALSE, TRUE>>}

FillColors == {"none", "pink"}

RenderPaddings == {SpacingRectangle(<<>>), SpacingRectangle(<<1, 0, 0, 0>>)}

\* Boxes built outside-in, as generatePage builds the title and the board.
RenderBoxes ==
    { SetOuterHeight(SetOuterWidth(Box(Undefined, Undefined, SpacingRectangle(<<>>), pad, s), w), h) :
        pad \in RenderPaddings, s \in StrokeWidths,
        w \in -1..MaxRenderOuter, h \in -1..MaxRenderOuter }

InitSvg ==
    /\ GenerationIdle
    /\ geometry = NoGeometry
    /\ heap = NoHeap

\* new SVGBox(b..., strokeColor, fillColor, sides).render(0, 0)
RenderBox(b, fillColor, sides) ==
    /\ geometry.op = "none"
    /\ geometry' = [op |-> "SVGBox.render", box |-> b, sides |-> sides,
                    element |-> SVGBoxRender(b, 0, 0, mainStrokeColor, fillColor, sides)]
    /\ UNCHANGED <<generationVars, heap>>

\* makeBoard(availableWidth, availableHeight, box, render, id), the later
\* revision: the counts and sizes it returns, the <use> elements it appends
\* (column i, row j, translate(x, y), the symbol variant referenced) and
\* the board outline.  Math.floor of a quotient with positive divisor is \div.
makeBoard(availableWidth, availableHeight, b) ==
    LET outerTopOutline == IF b.margin.top > 0 THEN b.strokeWidth ELSE 0
        outerBottomOutline == IF b.margin.bottom > 0 THEN b.strokeWidth ELSE 0
        outerLeftOutline == IF b.margin.left > 0 THEN b.strokeWidth ELSE 0
        outerRightOutline == IF b.margin.right > 0 THEN b.strokeWidth ELSE 0
        innerVerticalStrokeContribution == IF mergedVertical(b.margin) = 0 THEN b.strokeWidth ELSE 0
        innerHorizontalStrokeContribution == IF mergedHorizontal(b.margin) = 0 THEN b.strokeWidth ELSE 0
        columnWidthFixed ==
            outerLeftOutline + b.margin.left
            - (mergedHorizontal(b.margin) - innerHorizontalStrokeContribution)
            + b.margin.right + outerRightOutline
        columnHeightFixed ==
            outerTopOutline + b.margin.top
            - (mergedVertical(b.margin) - innerVerticalStrokeContribution)
            + b.margin.bottom + outerBottomOutline
        columnWidthVariable == outerWidth(b) + mergedHorizontal(b.margin) - innerHorizontalStrokeContribution
        columnHeightVariable == outerHeight(b) + mergedVertical(b.margin) - innerVerticalStrokeContribution
        nRows == (availableHeight - columnHeightFixed) \div columnHeightVariable
        nColumns == (availableWidth - columnWidthFixed) \div columnWidthVariable
        usedHeight == columnHeightFixed + columnHeightVariable * nRows
        usedWidth == columnWidthFixed + columnWidthVariable * nColumns
        startY == b.margin.top + outerTopOutline
        startX == b.margin.left + outerLeftOutline
        nUses == IF nColumns > 0 /\ nRows > 0 THEN nColumns * nRows ELSE 0
        boardBox ==
            SetOuterHeight(
                SetOuterWidth(Box(Undefined, Undefined, SpacingRectangle(<<>>), SpacingRectangle(<<>>),
                                  b.strokeWidth), usedWidth),
                usedHeight)
    IN  [nRows |-> nRows, nColumns |-> nColumns,
         usedWidth |-> usedWidth, usedHeight |-> usedHeight,
         columnWidthFixed |-> columnWidthFixed, columnHeightFixed |-> columnHeightFixed,
         columnWidthVariable |-> columnWidthVariable, columnHeightVariable |-> columnHeightVariable,
         uses |-> [k \in 1..nUses |->
                     LET i == (k - 1) \div nRows
                         j == (k - 1) % nRows
                     IN  [i |-> i, j |-> j,
                          x |-> startX + i * columnWidthVariable,
                          y |-> startY + j * columnHeightVariable,
                          isLast |-> j = nRows - 1]],
         outline |-> SVGBoxRender(boardBox, 0, 0, mainStrokeColor, "none", AllSides)]

\* The sizes makeBoard is offered.
MaxAvailable == 6

\* makeBoard(availableWidth, availableHeight, b, render)
MakeBoard(availableWidth, availableHeight, b) ==
    /\ geometry.op = "none"
    /\ geometry' = [op |-> "makeBoard", box |-> b,
                    availableWidth |-> availableWidth, availableHeight |-> availableHeight,
                    board |-> makeBoard(availableWidth, availableHeight, b)]
    /\ UNCHANGED <<generationVars, heap>>

\* Cell boxes of the hanzi box, square and not, in twelfths of the unit.
HanziShapes == {<<1, 1>>, <<2, 1>>, <<1, 2>>}

HanziBoxes ==
    { ScaledBox(Box(sh[1], sh[2], SpacingRectangle(<<>>), SpacingRectangle(<<>>), sw), 12) :
        sh \in HanziShapes, sw \in StrokeWidths }

MaxAssignments == 2

\* new SVGHanziBox(b..., enclosed, 19, 25, colours, flags, addBottom)
NewHanziBox(b, enclosed, fl, addBottom) ==
    /\ geometry.op = "none"
    /\ geometry' = [op |-> "SVGHanziBox",
                    hanzi |-> SVGHanziBoxAddBottom(b, Bool(enclosed), Num(nDashesStraight),
                                  Num(nDashesDiag), Str(mainStrokeColor), Str(innerColor),
                                  Bool(fl.addCross), Bool(fl.addDiagonal), Bool(fl.addThirds),
                                  Bool(fl.addBox), Bool(addBottom)),
                    assignments |-> 0]
    /\ UNCHANGED <<generationVars, heap>>

\* hanzi.isEnclosed = value
AssignIsEnclosed(value) ==
    /\ geometry.op \in {"SVGHanziBox", "isEnclosed"}
    /\ geometry.assignments < MaxAssignments
    /\ geometry' = [op |-> "isEnclosed",
                    hanzi |-> SetIsEnclosed(geometry.hanzi, value),
                    assignments |-> geometry.assignments + 1]
    /\ UNCHANGED <<generationVars, heap>>

\* const copy = hanzi.clone(), and both rendered at the origin
CloneHanziBox(isLast) ==
    /\ geometry.op \in {"SVGHanziBox", "isEnclosed"}
    /\ geometry' = [op |-> "clone",
                    hanzi |-> geometry.hanzi,
                    assignments |-> geometry.assignments,
                    copy |-> SVGHanziBoxClone(geometry.hanzi),
                    isLast |-> isLast,
                    element |-> SVGHanziBoxAddBottomRender(geometry.hanzi, 0, 0, isLast),
                    copyElement |-> SVGHanziBoxAddBottomRender(SVGHanziBoxClone(geometry.hanzi), 0, 0, isLast)]
    /\ UNCHANGED <<generationVars, heap>>

NextSvg ==
    \/ \E b \in RenderBoxes, fillColor \in FillColors, sides \in RenderSides :
          RenderBox(b, fillColor, sides)
    \/ \E b \in HanziBoxes, enclosed \in BOOLEAN, fl \in AllFlags, addBottom \in BOOLEAN :
          NewHanziBox(b, enclosed, fl, addBottom)
    \/ \E value \in {Bool(TRUE), Bool(FALSE), Num(0), JsUndefined} : AssignIsEnclosed(value)
    \/ \E isLast \in BOOLEAN : CloneHanziBox(isLast)
    \/ \E availableWidth \in 0..MaxAvailable, availableHeight \in 0..MaxAvailable, b \in SmallBoxes :
          MakeBoard(availableWidth, availableHeight, b)

SpecSvg == InitSvg /\ [][NextSvg]_vars

\* ------------------------------------------------------------------ claims
\* Sizes named by the claims, written out from the fields of the cell box
\* as the call left it.
ClaimBoundaryRowHeight == outerHeight(box) + box.margin.top + box.margin.bottom

ClaimInteriorRowHeight == outerHeight(box) - box.strokeWidth + Max(box.margin.top, box.margin.bottom)

ClaimBoundaryColumnWidth == outerWidth(box) + box.margin.left + box.margin.right

ClaimInteriorColumnWidth == outerWidth(box) - box.strokeWidth + Max(box.margin.left, box.margin.right)

TitlesPlaced == {k \in 1..Len(result.columns) : result.columns[k].kind = "title"}

\* C1: generatePage never returns a negative nRows or nColumns; when
\* page.innerHeight is below one boundary row height nRows is 0 and no cell
\* is placed, and when page.innerWidth is below one boundary column width
\* nColumns is 0 and no column is placed, in every title mode.
C1_EmptyBelowBoundary ==
    result.called =>
        /\ result.nRows >= 0
        /\ result.nColumns >= 0
        /\ (page.innerHeight < ClaimBoundaryRowHeight
                => result.nRows = 0 /\ result.cells = <<>>)
        /\ (page.innerWidth < ClaimBoundaryColumnWidth
                => result.nColumns = 0 /\ result.columns = <<>>)

\* C2: nRows = floor((innerHeight - boundaryRowHeight) / interiorRowHeight) + 1
\* when the boundary row fits and 0 otherwise; with titleColumn none
\* nColumns follows the same formula on the horizontal axis.
C2_CountFormula ==
    result.called =>
        /\ result.nRows =
             IF page.innerHeight >= ClaimBoundaryRowHeight
             THEN (page.innerHeight - ClaimBoundaryRowHeight) \div ClaimInteriorRowHeight + 1
             ELSE 0
        /\ (titleColumn = "none" =>
              result.nColumns =
                 IF page.innerWidth >= ClaimBoundaryColumnWidth
                 THEN (page.innerWidth - ClaimBoundaryColumnWidth) \div ClaimInteriorColumnWidth + 1
                 ELSE 0)

C2_Witness ==
    /\ result.called
    /\ titleColumn = "none"
    /\ box.strokeWidth > 0
    /\ box.margin.left # box.margin.right
    /\ result.nRows >= 2
    /\ result.nColumns >= 3

\* C3: the consumed size never overflows the printable area, in every
\* title mode: columnsOuterWidth <= page.innerWidth and
\* columnsOuterHeight <= page.innerHeight.
C3_NoOverflow ==
    result.called =>
        /\ result.columnsOuterWidth <= page.innerWidth
        /\ result.columnsOuterHeight <= page.innerHeight

C3_Witness ==
    /\ result.called
    /\ titleColumn \in {"start", "end"}
    /\ result.nTitleColumns = 1
    /\ result.nInteriorColumns >= 1
    /\ result.nRows >= 1
    /\ result.columnsOuterWidth = page.innerWidth
    /\ result.columnsOuterHeight = page.innerHeight

\* C4: the counts are maximal: for rows, and for columns when titleColumn
\* is none, whenever an element is placed one more interior element would
\* exceed the page inner size.
C4_Maximal ==
    result.called =>
        /\ (result.nRows >= 1 =>
              result.columnsOuterHeight + ClaimInteriorRowHeight > page.innerHeight)
        /\ (titleColumn = "none" /\ result.nColumns >= 1 =>
              result.columnsOuterWidth + ClaimInteriorColumnWidth > page.innerWidth)

C4_Witness ==
    /\ result.called
    /\ titleColumn = "none"
    /\ result.nRows >= 2
    /\ result.nColumns >= 2
    /\ result.columnsOuterHeight < page.innerHeight
    /\ result.columnsOuterWidth < page.innerWidth
    /\ box.margin.top + box.margin.bottom > 0

\* The scenario of C5 in quarter millimetres: outerWidth 10mm, margin.left =
\* margin.right = 2mm, strokeWidth 0.5mm, page.innerWidth 86mm, no title.
C5_Scenario ==
    /\ result.called
    /\ titleColumn = "none"
    /\ outerWidth(box) = 40
    /\ box.margin.left = 8
    /\ box.margin.right = 8
    /\ box.strokeWidth = 2
    /\ page.innerWidth = 344

\* C5: in that scenario boundaryColumnWidth is 14mm, interiorColumnWidth is
\* 11.5mm, there is one boundary column and six interior columns, and
\* nColumns = 7.
C5_WorkedScenario ==
    C5_Scenario =>
        /\ boundaryColumnWidth(box) = 56
        /\ interiorColumnWidth(box) = 46
        /\ result.nBoundaryColumns = 1
        /\ result.nInteriorColumns = 6
        /\ result.nColumns = 7

C5_Witness == C5_Scenario /\ boxStyle = "grid" /\ Len(result.columns) = 7

\* C6: with titleColumn middle, whenever a title column is placed nColumns
\* is odd, and below the middle-mode threshold (title column width + 2
\* boundary column widths) no title column is placed.
C6_MiddleOdd ==
    result.called /\ titleColumn = "middle" =>
        /\ (result.nTitleColumns > 0 \/ TitlesPlaced # {} => result.nColumns % 2 = 1)
        /\ (page.innerWidth < outerWidth(box) + 2 * ClaimBoundaryColumnWidth
                => result.nTitleColumns = 0 /\ TitlesPlaced = {})

\* A title is placed and the floor of the interior count was odd.
C6_Witness ==
    /\ result.called
    /\ titleColumn = "middle"
    /\ result.nTitleColumns = 1
    /\ box.strokeWidth > 0
    /\ ((page.innerWidth - outerWidth(box) - 2 * ClaimBoundaryColumnWidth)
            \div ClaimInteriorColumnWidth) % 2 = 1

\* C7: with titleColumn middle and a title placed, the interior column
\* count is even and the title has as many columns before it as after it.
C7_MiddleCentred ==
    result.called /\ titleColumn = "middle" /\ result.nTitleColumns > 0 =>
        /\ result.nInteriorColumns % 2 = 0
        /\ \E k \in 1..Len(result.columns) :
              /\ TitlesPlaced = {k}
              /\ result.titleIdx = {result.columns[k].idx}
              /\ Cardinality({j \in 1..Len(result.columns) : j < k})
                   = Cardinality({j \in 1..Len(result.columns) : j > k})

C7_Witness ==
    /\ result.called
    /\ titleColumn = "middle"
    /\ result.nTitleColumns = 1
    /\ result.nColumns >= 5
    /\ box.margin.left # box.margin.right

\* C8: with titleColumn start (end), whenever a title column is placed it
\* is the column at index 0 (nColumns - 1) and exactly one title column
\* exists among the nColumns columns.
C8_StartEndIndex ==
    result.called /\ titleColumn \in {"start", "end"} /\ result.nTitleColumns > 0 =>
        /\ Len(result.columns) = result.nColumns
        /\ Cardinality(TitlesPlaced) = 1
        /\ \A k \in TitlesPlaced :
              result.columns[k].idx = IF titleColumn = "start" THEN 0 ELSE result.nColumns - 1
        /\ result.titleIdx = {IF titleColumn = "start" THEN 0 ELSE result.nColumns - 1}

C8_Witness ==
    /\ result.called
    /\ titleColumn = "end"
    /\ result.nTitleColumns = 1
    /\ result.nColumns >= 3
    /\ result.columns[result.nColumns].kind = "title"

\* C9: when page.innerWidth is below the minimum of the requested title
\* mode (title width + one boundary column for start/end, + two for
\* middle), no title column is placed and nColumns is what titleColumn
\* none returns for the same page and cell box.
C9_FallbackToNone ==
    LET minimum == IF titleColumn = "middle"
                   THEN outerWidth(box) + 2 * ClaimBoundaryColumnWidth
                   ELSE outerWidth(box) + ClaimBoundaryColumnWidth
    IN  result.called /\ titleColumn # "none" /\ page.innerWidth < minimum =>
            /\ result.nTitleColumns = 0
            /\ TitlesPlaced = {}
            /\ result.nColumns = nColumnsOf(ColumnCounts(page, box, "none"))

\* C10: the grid is offset from the page inner origin by
\* (page.innerWidth - columnsOuterWidth) / 2 horizontally and
\* (page.innerHeight - columnsOuterHeight) / 2 vertically.
C10_Centred ==
    result.called =>
        /\ 2 * (result.translate[1] - innerOrigin(page)[1])
             = page.innerWidth - result.columnsOuterWidth
        /\ 2 * (result.translate[2] - innerOrigin(page)[2])
             = page.innerHeight - result.columnsOuterHeight

\* C11: with style ruled, after generatePage the cell box has margin.top =
\* margin.bottom = 0 whatever their input values, the layout is computed
\* with those zero margins, and margin.left and margin.right keep their
\* input values.
C11_RuledZeroesVerticalMargins ==
    result.called /\ boxStyle = "ruled" =>
        /\ box.margin.top = 0
        /\ box.margin.bottom = 0
        /\ box.margin.left = boxBefore.margin.left
        /\ box.margin.right = boxBefore.margin.right
        /\ result.nRows =
             IF page.innerHeight >= outerHeight(boxBefore)
             THEN (page.innerHeight - outerHeight(boxBefore))
                      \div (outerHeight(boxBefore) - boxBefore.strokeWidth) + 1
             ELSE 0
        /\ result.columnsOuterHeight =
             IF result.nRows = 0 THEN 0
             ELSE outerHeight(boxBefore)
                    + (result.nRows - 1) * (outerHeight(boxBefore) - boxBefore.strokeWidth)
        /\ result.separators = <<>>
        /\ result.cells = <<>>

\* The input had both vertical margins set and the page is too short for a
\* row with them, yet rows were placed.
C11_Witness ==
    /\ result.called
    /\ boxStyle = "ruled"
    /\ boxBefore.margin.top > 0
    /\ boxBefore.margin.bottom > 0
    /\ boxBefore.margin.left # boxBefore.margin.right
    /\ page.innerHeight < outerHeight(boxBefore) + totalVertical(boxBefore.margin)
    /\ result.nRows >= 1

C12_RuledSingleRectangle ==
    result.called /\ boxStyle = "ruled" =>
        /\ result.cells = <<>>
        /\ result.separators = <<>>
        /\ \A k \in 1..Len(result.columns) :
              result.columns[k].kind = "column" =>
                  /\ Cardinality({e \in 1..Len(result.board[k]) :
                                      result.board[k][e].tag = "rect"}) = 1
                  /\ result.board[k][1].tag = "rect"
                  /\ result.board[k][1].height + box.strokeWidth = result.columnsOuterHeight

\* C14: in grid style with vertical merged margin 0, between every two
\* consecutive cells of a column exactly one separator line is drawn,
\* dashed and in the lighter guide colour (nRows - 1 per column), and no two
\* solid cell borders are drawn on the same shared edge; with vertical
\* merged margin > 0 no separator is drawn and every cell draws its own
\* full solid border.
C14_SharedEdgeDrawnOnce ==
    result.called /\ boxStyle = "grid" =>
        IF Max(box.margin.top, box.margin.bottom) = 0
        THEN /\ Len(result.separators) = IF result.nRows >= 1 THEN result.nRows - 1 ELSE 0
             /\ \A k \in 1..Len(result.separators) :
                   /\ result.separators[k].dashed
                   /\ result.separators[k].stroke = innerColor
                   /\ result.separators[k].y1 = result.cells[k + 1]
                   /\ result.separators[k].y2 = result.cells[k + 1]
             /\ result.hanziBox.bottom = <<>>
             /\ (result.nRows >= 2 =>
                    ~(result.hanziBox.sides[1] /\ result.hanziBox.sides[3]))
        ELSE /\ result.separators = <<>>
             /\ result.hanziBox.bottom = <<>>
             /\ result.hanziBox.sides = AllSides
             /\ result.hanziBox.border.tag = "rect"

\* C15: in grid style the guide lines drawn in a cell are exactly those the
\* flags select: addCross the two centerlines, addThirds the four lines at
\* 1/3 and 2/3, addDiagonal the two diagonals, addBox the inner square, and
\* a flag that is false draws nothing.
C15_GuidesFollowFlags ==
    result.called /\ boxStyle = "grid" =>
        LET h == result.hanziBox
            b == ScaledBox(box, 12)
        IN  /\ Len(h.cross) = IF flags.addCross THEN 2 ELSE 0
            /\ Len(h.thirds) = IF flags.addThirds THEN 4 ELSE 0
            /\ Len(h.diagonal) = IF flags.addDiagonal THEN 2 ELSE 0
            /\ Len(h.innerBox) = IF flags.addBox THEN 1 ELSE 0
            /\ (flags.addCross =>
                  /\ h.cross[1].y1 = innerOrigin(b)[2] + b.innerHeight \div 2
                  /\ h.cross[1].y2 = h.cross[1].y1
                  /\ h.cross[2].x1 = innerOrigin(b)[1] + b.innerWidth \div 2
                  /\ h.cross[2].x2 = h.cross[2].x1)

\* The Box under construction exists.
HasBox == geometry.op \in {"Box", "outerWidth", "outerHeight"}

\* Its inner width (height) is a number: given to the constructor, or
\* assigned through the outer width (height).
InnerWidthSet == geometry.givenWidth \/ "outerWidth" \in geometry.assigned

InnerHeightSet == geometry.givenHeight \/ "outerHeight" \in geometry.assigned

\* C16: SpacingRectangle construction follows the CSS shorthand for every
\* argument count: one value sets all four sides; two values (a, b) set
\* top = bottom = a, left = right = b; three values (a, b, c) set top = a,
\* left = right = b, bottom = c; four values set top, right, bottom, left.
C16_CssShorthand ==
    geometry.op # "none" =>
        LET a == geometry.args
            r == geometry.rect
        IN  /\ (Len(a) = 1 => r.top = a[1] /\ r.right = a[1] /\ r.bottom = a[1] /\ r.left = a[1])
            /\ (Len(a) = 2 => r.top = a[1] /\ r.bottom = a[1] /\ r.left = a[2] /\ r.right = a[2])
            /\ (Len(a) = 3 => r.top = a[1] /\ r.left = a[2] /\ r.right = a[2] /\ r.bottom = a[3])
            /\ (Len(a) = 4 => r.top = a[1] /\ r.right = a[2] /\ r.bottom = a[3] /\ r.left = a[4])

C16_Witness ==
    /\ geometry.op = "SpacingRectangle"
    /\ Len(geometry.args) = 3
    /\ Cardinality({geometry.args[1], geometry.args[2], geometry.args[3]}) = 3
    /\ geometry.rect.bottom = geometry.args[3]

\* C17: for a SpacingRectangle built from four values (t, r, b, l),
\* totalHorizontal = l + r, totalVertical = t + b, mergedHorizontal is the
\* larger of l and r and mergedVertical the larger of t and b.
C17_DerivedSpacings ==
    geometry.op # "none" /\ Len(geometry.args) = 4 =>
        LET t == geometry.args[1]
            r == geometry.args[2]
            b == geometry.args[3]
            l == geometry.args[4]
        IN  /\ totalHorizontal(geometry.rect) = l + r
            /\ totalVertical(geometry.rect) = t + b
            /\ mergedHorizontal(geometry.rect) = (IF l >= r THEN l ELSE r)
            /\ mergedVertical(geometry.rect) = (IF t >= b THEN t ELSE b)

C17_Witness ==
    /\ geometry.op = "SpacingRectangle"
    /\ Len(geometry.args) = 4
    /\ geometry.args[1] > geometry.args[3]
    /\ geometry.args[3] > 0
    /\ geometry.args[4] > geometry.args[2]
    /\ mergedVertical(geometry.rect) = geometry.args[1]

\* C18: assigning outerWidth = W (outerHeight = H) to a Box, also one whose
\* inner size is still undefined, and reading outerWidth (outerHeight) back
\* gives W (H), and the assignment changes innerWidth (innerHeight) only.
C18_OuterRoundTrip ==
    /\ geometry.op = "outerWidth" =>
          /\ outerWidth(geometry.box) = geometry.value
          /\ geometry.box = [geometry.before EXCEPT !.innerWidth = geometry.box.innerWidth]
    /\ geometry.op = "outerHeight" =>
          /\ outerHeight(geometry.box) = geometry.value
          /\ geometry.box = [geometry.before EXCEPT !.innerHeight = geometry.box.innerHeight]

C18_Witness ==
    /\ geometry.op = "outerWidth"
    /\ ~geometry.givenWidth
    /\ geometry.box.strokeWidth > 0
    /\ geometry.box.padding.left > geometry.box.padding.right
    /\ geometry.box.padding.right > 0
    /\ geometry.value = MaxOuter
    /\ outerWidth(geometry.box) = MaxOuter

C20_CloneIndependent ==
    heap.op \in {"clone", "write", "ruled"} =>
        LET original == heap.boxes.original
            clone == heap.boxes.clone
        IN  /\ {clone.margin, clone.padding} \cap {original.margin, original.padding} = {}
            /\ clone.margin # clone.padding
            /\ (heap.op = "clone" => Deref(heap.store, clone) = Deref(heap.store, original))
            /\ ("original" \notin heap.written => Deref(heap.store, original) = heap.atClone)
            /\ ("clone" \notin heap.written => Deref(heap.store, clone) = heap.atClone)

C20_Witness ==
    /\ heap.op = "ruled"
    /\ heap.written = {"clone"}
    /\ heap.writes = MaxWrites
    /\ heap.store[heap.boxes.clone.margin] # heap.atClone.margin
    /\ heap.store[heap.boxes.clone.padding] # heap.atClone.padding
    /\ heap.store[heap.boxes.original.margin].top > 0

\* C21: SVGBox.render of a degenerate box, one whose outer width or outer
\* height is zero or negative, returns an empty group: no rectangle and no
\* line.
C21_DegenerateEmpty ==
    geometry.op = "SVGBox.render"
    /\ (outerWidth(geometry.box) <= 0 \/ outerHeight(geometry.box) <= 0) =>
        /\ geometry.element.tag = "g"
        /\ geometry.element.children = <<>>

C21_Witness ==
    /\ geometry.op = "SVGBox.render"
    /\ outerWidth(geometry.box) = 0
    /\ outerHeight(geometry.box) > 0
    /\ geometry.box.strokeWidth = 0
    /\ geometry.box.padding.top > 0
    /\ geometry.element = EmptyGroup

\* The square of the length of a line element.
LengthSquared(line) ==
    (line.x2 - line.x1) * (line.x2 - line.x1) + (line.y2 - line.y1) * (line.y2 - line.y1)

\* The line is dashed with dash length = its length / n, and its dash
\* offset is the dash length.
DashedInto(line, n) ==
    /\ line.dashed
    /\ line.dasharray = <<LengthSquared(line), n>>
    /\ line.dashoffset = line.dasharray

\* C22: in a grid cell produced by generatePage every axis-aligned guide
\* line (cross, thirds, row separator) is dashed with dash length = line
\* length / 19, every diagonal with dash length = line length / 25, and the
\* dash offset of each equals its dash length.
C22_DashLengths ==
    result.called /\ boxStyle = "grid" =>
        LET h == result.hanziBox IN
        /\ \A k \in 1..Len(h.cross) : DashedInto(h.cross[k], 19)
        /\ \A k \in 1..Len(h.thirds) : DashedInto(h.thirds[k], 19)
        /\ \A k \in 1..Len(h.bottom) : DashedInto(h.bottom[k], 19)
        /\ \A k \in 1..Len(result.separators) : DashedInto(result.separators[k], 19)
        /\ \A k \in 1..Len(h.diagonal) : DashedInto(h.diagonal[k], 25)

\* C23: the inner box guide drawn by SVGHanziBox.render is a square of side
\* innerWidth / 2, centred in the cell's inner area on both axes, for every
\* innerWidth and innerHeight, also when they differ.
C23_InnerBoxCentred ==
    geometry.op = "clone" /\ Truthy(geometry.hanzi.addBox) =>
        LET b == geometry.hanzi.box
            r == geometry.element.innerBox[1]
        IN  /\ Len(geometry.element.innerBox) = 1
            /\ 2 * r.width = b.innerWidth
            /\ r.height = r.width
            /\ r.x - innerOrigin(b)[1] = innerEnd(b)[1] - (r.x + r.width)
            /\ r.y - innerOrigin(b)[2] = innerEnd(b)[2] - (r.y + r.height)

\* C28: SVGHanziBox.clone returns a box that renders exactly like the
\* original: every field, addBottom included, is equal in the clone; and
\* after any sequence of isEnclosed assignments sides is all-true exactly
\* when isEnclosed is truthy and [false, true, false, true] otherwise.
C28_CloneRendersAlike ==
    /\ geometry.op \in {"SVGHanziBox", "isEnclosed", "clone"} =>
          geometry.hanzi.sides =
              IF Truthy(geometry.hanzi.isEnclosedAttr) THEN AllSides ELSE <<FALSE, TRUE, FALSE, TRUE>>
    /\ geometry.op = "clone" =>
          /\ geometry.copy = geometry.hanzi
          /\ geometry.copyElement = geometry.element

\* C24: makeBoard never returns a negative row or column count: for every
\* availableWidth and availableHeight, also ones smaller than a single
\* cell, nRows >= 0, nColumns >= 0, usedWidth <= availableWidth,
\* usedHeight <= availableHeight, and the count is 0 on an axis on which no
\* cell fits.
C24_CountsNotNegative ==
    geometry.op = "makeBoard" =>
        LET m == geometry.board IN
        /\ m.nRows >= 0
        /\ m.nColumns >= 0
        /\ m.usedWidth <= geometry.availableWidth
        /\ m.usedHeight <= geometry.availableHeight
        /\ (geometry.availableWidth < m.columnWidthFixed + m.columnWidthVariable => m.nColumns = 0)
        /\ (geometry.availableHeight < m.columnHeightFixed + m.columnHeightVariable => m.nRows = 0)

\* C26: makeBoard places exactly nRows * nColumns cells, the cell of column
\* i and row j at x = margin.left + left outline + i * columnWidthVariable
\* and y = margin.top + top outline + j * columnHeightVariable, rendered
\* with the isLast variant exactly when j = nRows - 1.
C26_CellsPlaced ==
    geometry.op = "makeBoard" =>
        LET m == geometry.board
            b == geometry.box
            leftOutline == IF b.margin.left > 0 THEN b.strokeWidth ELSE 0
            topOutline == IF b.margin.top > 0 THEN b.strokeWidth ELSE 0
        IN  /\ Len(m.uses) = m.nRows * m.nColumns
            /\ \A i \in 0..(m.nColumns - 1), j \in 0..(m.nRows - 1) :
                  Cardinality({k \in 1..Len(m.uses) : m.uses[k].i = i /\ m.uses[k].j = j}) = 1
            /\ \A k \in 1..Len(m.uses) :
                  /\ m.uses[k].x = b.margin.left + leftOutline + m.uses[k].i * m.columnWidthVariable
                  /\ m.uses[k].y = b.margin.top + topOutline + m.uses[k].j * m.columnHeightVariable
                  /\ m.uses[k].isLast = (m.uses[k].j = m.nRows - 1)

\* The outer edges of a placed column, from the board origin: the loop's x
\* is the centre of the column's left stroke (it starts at strokeWidth / 2
\* + margin.left), and the column is its outer width wide.
ColumnLeftEdge(col) == col.x - box.strokeWidth \div 2

ColumnRightEdge(col) == ColumnLeftEdge(col) + col.width

\* C25: every column that generatePage places, the title column included,
\* lies inside the consumed width: its left edge is >= 0 and its right edge
\* is <= columnsOuterWidth, for every title mode and all non-negative left
\* and right margins, also different ones.
C25_ColumnsInsideWidth ==
    result.called =>
        \A k \in 1..Len(result.columns) :
            /\ ColumnLeftEdge(result.columns[k]) >= 0
            /\ ColumnRightEdge(result.columns[k]) <= result.columnsOuterWidth

\* C27: generatePage leaves its inputs unchanged except for one write: with
\* style none or grid every field of the page box and of the cell box is
\* the same after the call as before, and with style ruled only the cell
\* box's margin.top and margin.bottom change; so whatever calls are made on
\* the same cell box, its margin.left, margin.right, padding, strokeWidth
\* and inner size keep their values.
C27_OnlyVerticalMarginsWritten ==
    [][/\ page' = page
       /\ (boxStyle \in {"none", "grid"} => box' = box)
       /\ box' = [box EXCEPT !.margin.top = box'.margin.top,
                             !.margin.bottom = box'.margin.bottom]]_vars

C27_Witness ==
    /\ result.called
    /\ boxStyle = "ruled"
    /\ boxBefore.margin.top > 0
    /\ boxBefore.margin.bottom > 0
    /\ box.margin.top = 0
    /\ box.margin.bottom = 0
    /\ box.margin.left > box.margin.right
    /\ box.strokeWidth > 0
    /\ box.padding.top > 0
    /\ result.nColumns >= 2

====
